---- MODULE Spec2Model ----
(***************************************************************************)
(* A model of simple-workflow-js: FlowManager (src/src/flow-manager.ts)    *)
(* and Task (src/src/task.ts).                                             *)
(*                                                                         *)
(* The model follows the JavaScript run-to-completion semantics the code   *)
(* relies on: the synchronous part of run (validation and the forEach      *)
(* dispatch) is never interleaved with anything else, promise reactions    *)
(* are jobs of a FIFO microtask queue (mq), and timers (the per-task       *)
(* timeout, the settling of an executor's pending promise) are macrotasks  *)
(* that run only when the microtask queue is empty.                        *)
(***************************************************************************)
EXTENDS Integers, Sequences, FiniteSets, TLC

\* ------------------------------------------------------------------ bounds

\* Longest task list the flow is built with.
MaxTasks == 3

\* Task names used by the flows of the model.
Names == {"A", "B", "C", "D"}

\* `deps` is optional (src/src/models/TaskOptions: deps?: string[]); hasDeps is
\* the truthiness of task.options.deps, deps the array (<<>> when absent).
NoDeps == [hasDeps |-> FALSE, deps |-> <<>>]

Deps(s) == [hasDeps |-> TRUE, deps |-> s]

\* new Task(id, options): id and the dependency part of the options.  The
\* executor is user code: its behaviour is chosen when it is invoked.
Task(id, options) == [id |-> id, options |-> options]

\* The tasks the flows of the model are built from, in any order and with
\* repetition: the diamond A -> {B, C} -> D, a task "A" that depends on "B"
\* (a second registration of the name "A", and a cycle with B), a self
\* dependency, and a task with an empty deps array.
TaskPool ==
    { Task("A", NoDeps),
      Task("B", Deps(<<"A">>)),
      Task("C", Deps(<<"A">>)),
      Task("D", Deps(<<"B", "C">>)),
      Task("A", Deps(<<"B">>)),
      Task("C", Deps(<<"C">>)),
      Task("C", Deps(<<>>)) }

\* ------------------------------------------------------------ pure helpers

Range(s) == { s[i] : i \in 1..Len(s) }

\* The ids registered in a task list.
Ids(list) == { list[i].id : i \in 1..Len(list) }

\* taskMap of detectCircularDependencys: Map.set in list order, so the last
\* task registered under an id is the one the map holds.
taskMap(list) ==
    [ n \in Ids(list) |->
        list[CHOOSE i \in 1..Len(list) :
                /\ list[i].id = n
                /\ \A j \in (i+1)..Len(list) : list[j].id # n] ]

\* The walk state of hasCycle: the two closure sets, and how the call ended:
\* "false" / "true" for a return value, "throw" for the unknown-dependency
\* error (dep and task are the names in its message).
Walk(ret, visited, recStack, dep, task) ==
    [ret |-> ret, visited |-> visited, recStack |-> recStack,
     dep |-> dep, task |-> task]

RECURSIVE hasCycle(_, _, _, _)
RECURSIVE hasCycleDeps(_, _, _, _, _, _)

\* The for-of loop over task.options.deps inside hasCycle(taskId), from the
\* j-th dependency on.  Falling off the end of the loop is ret = "false".
hasCycleDeps(list, taskId, deps, j, visited, recStack) ==
    IF j > Len(deps)
    THEN Walk("false", visited, recStack, "", "")
    ELSE LET dep == deps[j] IN
         IF dep \notin DOMAIN taskMap(list)
         THEN Walk("throw", visited, recStack, dep, taskId)
         ELSE IF dep \notin visited
              THEN LET r == hasCycle(list, dep, visited, recStack) IN
                   IF r.ret # "false"
                   THEN r
                   ELSE IF dep \in r.recStack
                        THEN Walk("true", r.visited, r.recStack, "", "")
                        ELSE hasCycleDeps(list, taskId, deps, j + 1,
                                          r.visited, r.recStack)
              ELSE IF dep \in recStack
                   THEN Walk("true", visited, recStack, "", "")
                   ELSE hasCycleDeps(list, taskId, deps, j + 1,
                                     visited, recStack)

\* const hasCycle = (taskId) => ...
hasCycle(list, taskId, visited, recStack) ==
    IF taskId \notin visited
    THEN LET task == taskMap(list)[taskId]
             r == IF task.options.hasDeps
                  THEN hasCycleDeps(list, taskId, task.options.deps, 1,
                                    visited \cup {taskId},
                                    recStack \cup {taskId})
                  ELSE Walk("false", visited \cup {taskId},
                            recStack \cup {taskId}, "", "")
         IN  IF r.ret # "false"
             THEN r
             ELSE Walk("false", r.visited, r.recStack \ {taskId}, "", "")
    ELSE Walk("false", visited, recStack \ {taskId}, "", "")

\* What detectCircularDependencys ends with.
NoError == [kind |-> "none", task |-> "", dep |-> "", errors |-> <<>>]

CircularError(task) ==
    [kind |-> "circular", task |-> task, dep |-> "", errors |-> <<>>]

UnknownError(dep, task) ==
    [kind |-> "unknown", task |-> task, dep |-> dep, errors |-> <<>>]

RECURSIVE detectFrom(_, _, _, _)

\* The final for-of loop of detectCircularDependencys, from the i-th task on.
detectFrom(list, i, visited, recStack) ==
    IF i > Len(list)
    THEN NoError
    ELSE LET r == hasCycle(list, list[i].id, visited, recStack) IN
         IF r.ret = "true" THEN CircularError(list[i].id)
         ELSE IF r.ret = "throw" THEN UnknownError(r.dep, r.task)
         ELSE detectFrom(list, i + 1, r.visited, r.recStack)

detectCircularDependencys(list) == detectFrom(list, 1, {}, {})

\* ------------------------------------------------------------------- state

VARIABLES
    taskList,   \* FlowManager.taskList
    pc,         \* where run is: "build" (not called), "dispatch" (in forEach),
                \* "await" (suspended at Promise.allSettled), "fulfilled",
                \* "rejected"
    idx,        \* the forEach position: the next task to dispatch
    taskProm,   \* run's taskProm: name -> index of the callback whose promise
                \* is stored, 0 for undefined (no key, or the value undefined)
    taskKeys,   \* the own keys of taskProm in insertion order
    promise,    \* per callback: state of the promise of Promise.withResolvers
    timeout,    \* per callback: state of its setTimeout timer
    at,         \* per callback: where the async callback is suspended
    exec,       \* per callback: state of the promise returned by task.exec
    invoked,    \* per callback: how many times the executor was called
    context,    \* run's context: name -> entry
    awaited,    \* Object.values(taskProm) as passed to Promise.allSettled
    reported,   \* the elements of awaited whose reaction job has run
    mq,         \* the microtask queue
    runError,   \* the error run rejected with
    executor,   \* name -> what the executor registered under that name does:
                \* "any" when it is left open, else one of Outcomes
    first,      \* the outcome of the run of the same tasks in the order
                \* they were first registered in, NoOutcome before
    addCall     \* the last call of addTask: its arguments and whether it
                \* returned this or threw, NoCall before

vars == <<taskList, pc, idx, taskProm, taskKeys, promise, timeout, at, exec,
          invoked, context, awaited, reported, mq, runError, executor, first,
          addCall>>

\* A context entry: no key, a key holding undefined, or the response of the
\* executor of callback `by`.
NoEntry == [kind |-> "none", by |-> 0]

UndefinedEntry == [kind |-> "undefined", by |-> 0]

Response(i) == [kind |-> "response", by |-> i]

\* The value an executor assigned itself: input.context[key] = value.
Assigned(i) == [kind |-> "assigned", by |-> i]

\* Microtask jobs: the continuation of callback i after an await, the reaction
\* of Promise.allSettled to its k-th element, the continuation of run.
TaskJob(i) == [job |-> "task", i |-> i]

ElementJob(k) == [job |-> "element", i |-> k]

RunJob == [job |-> "run", i |-> 0]

Tasks == 1..Len(taskList)

\* The first argument of addTask: a string, a Task instance, or a value that
\* is neither (undefined, a number, a plain object).
TaskArgs ==
    { [type |-> "string", id |-> n, options |-> NoDeps] : n \in {"A", "B"} }
    \cup { [type |-> "Task", id |-> t.id, options |-> t.options] :
             t \in {Task("A", NoDeps), Task("B", Deps(<<"A">>))} }
    \cup { [type |-> "other", id |-> "", options |-> NoDeps] }

\* The second argument of addTask: absent, or task options.
OptionArgs ==
    { [given |-> FALSE, options |-> NoDeps] }
    \cup { [given |-> TRUE, options |-> o] : o \in {NoDeps, Deps(<<"A">>)} }

\* addTask has not been called.
NoCall ==
    [task |-> [type |-> "other", id |-> "", options |-> NoDeps],
     taskOptions |-> [given |-> FALSE, options |-> NoDeps],
     result |-> "none"]

\* No run of the same tasks has been recorded.
NoOutcome == [status |-> "none", named |-> {}, waited |-> {}]

Init ==
    /\ taskList = <<>>
    /\ pc = "build"
    /\ idx = 1
    /\ taskProm = [n \in Names |-> 0]
    /\ taskKeys = <<>>
    /\ promise = <<>>
    /\ timeout = <<>>
    /\ at = <<>>
    /\ exec = <<>>
    /\ invoked = <<>>
    /\ context = [n \in Names |-> NoEntry]
    /\ awaited = <<>>
    /\ reported = {}
    /\ mq = <<>>
    /\ runError = NoError
    /\ executor = [n \in Names |-> "any"]
    /\ first = NoOutcome
    /\ addCall = NoCall

\* ------------------------------------------------------------------ addTask

\* addTask(task) with a Task, or with a name and task options: push.
addTask(task) ==
    /\ pc = "build"
    /\ Len(taskList) < MaxTasks
    /\ taskList' = Append(taskList, task)
    /\ UNCHANGED <<pc, idx, taskProm, taskKeys, promise, timeout, at, exec,
                   invoked, context, awaited, reported, mq, runError>>
    /\ UNCHANGED <<executor, first, addCall>>

\* addTask that takes a name without task options as a task without deps.
addTaskLenient(task, taskOptions) ==
    /\ pc = "build"
    /\ task.type # "other" => Len(taskList) < MaxTasks
    /\ IF task.type = "string"
       THEN /\ taskList' = Append(taskList, Task(task.id, taskOptions.options))
            /\ addCall' = [task |-> task, taskOptions |-> taskOptions,
                           result |-> "this"]
       ELSE IF task.type = "Task"
       THEN /\ taskList' = Append(taskList, Task(task.id, task.options))
            /\ addCall' = [task |-> task, taskOptions |-> taskOptions,
                           result |-> "this"]
       ELSE /\ addCall' = [task |-> task, taskOptions |-> taskOptions,
                           result |-> "error"]
            /\ UNCHANGED taskList
    /\ UNCHANGED <<pc, idx, taskProm, taskKeys, promise, timeout, at, exec,
                   invoked, context, awaited, reported, mq, runError,
                   executor, first>>

\* addTask(task, taskOptions) with any arguments: a string and task options
\* push new Task(task, taskOptions), a Task instance is pushed as it is (the
\* second argument is not looked at), anything else throws; a call that does
\* not throw returns this.
addTaskArgs(task, taskOptions) ==
    /\ pc = "build"
    /\ IF task.type = "string" /\ taskOptions.given
       THEN /\ Len(taskList) < MaxTasks
            /\ taskList' = Append(taskList, Task(task.id, taskOptions.options))
            /\ addCall' = [task |-> task, taskOptions |-> taskOptions,
                           result |-> "this"]
       ELSE IF task.type = "Task"
       THEN /\ Len(taskList) < MaxTasks
            /\ taskList' = Append(taskList, Task(task.id, task.options))
            /\ addCall' = [task |-> task, taskOptions |-> taskOptions,
                           result |-> "this"]
       ELSE /\ addCall' = [task |-> task, taskOptions |-> taskOptions,
                           result |-> "error"]
            /\ UNCHANGED taskList
    /\ UNCHANGED <<pc, idx, taskProm, taskKeys, promise, timeout, at, exec,
                   invoked, context, awaited, reported, mq, runError,
                   executor, first>>

\* A FlowManager that only receives addTask calls.
NextAdd == \E task \in TaskArgs, taskOptions \in OptionArgs :
             addTaskArgs(task, taskOptions)

SpecAdd == Init /\ [][NextAdd]_vars

\* ---------------------------------------------------------------------- run

\* The beginning of run(initialContext) with `ctx` the object
\* initialContext.context: taskProm = {}, context = initialContext.context,
\* then detectCircularDependencys(), which throws inside the async function:
\* run rejects with that error before forEach.
start(ctx) ==
    /\ LET err == detectCircularDependencys(taskList) IN
         /\ runError' = err
         /\ pc' = IF err.kind = "none" THEN "dispatch" ELSE "rejected"
    /\ idx' = 1
    /\ taskProm' = [n \in Names |-> 0]
    /\ taskKeys' = <<>>
    /\ promise' = [i \in Tasks |-> "none"]
    /\ timeout' = [i \in Tasks |-> "unset"]
    /\ at' = [i \in Tasks |-> "start"]
    /\ exec' = [i \in Tasks |-> "none"]
    /\ invoked' = [i \in Tasks |-> 0]
    /\ context' = ctx
    /\ awaited' = <<>>
    /\ reported' = {}
    /\ mq' = <<>>
    /\ UNCHANGED <<taskList, executor, addCall>>

\* The default of the parameter: { context: {} }, a new object at each call.
EmptyContext == [n \in Names |-> NoEntry]

\* run() on a FlowManager that has not run yet.
run ==
    /\ pc = "build"
    /\ start(EmptyContext)
    /\ UNCHANGED first

RECURSIVE depsLoop(_, _, _, _)

\* for (const dep of task.options.deps) { const depTask = taskProm[dep];
\*   if (!depTask) taskProm[task.id] = depTask; }
depsLoop(tp, id, deps, j) ==
    IF j > Len(deps)
    THEN tp
    ELSE LET depTask == tp[deps[j]] IN
         depsLoop(IF depTask = 0 THEN [tp EXCEPT ![id] = depTask] ELSE tp,
                  id, deps, j + 1)

\* What an executor call can do: return a value, throw, or return a promise
\* that is still pending.
Outcomes == {"return", "throw", "pending"}

\* What the executor registered under the name `id` does when it is called.
Behaviour(id) == IF executor[id] = "any" THEN Outcomes ELSE {executor[id]}

\* task.exec({context}) for callback i with the executor behaving as `o`: the
\* state of the promise exec returns.
execState(o) ==
    CASE o = "return" -> "fulfilled"
      [] o = "throw" -> "rejected"
      [] o = "pending" -> "pending"

\* The forEach callback of task idx up to its first await.
forEachTask ==
    /\ pc = "dispatch"
    /\ idx <= Len(taskList)
    /\ LET task == taskList[idx]
           tp1 == [taskProm EXCEPT ![task.id] = idx]
       IN
         /\ promise' = [promise EXCEPT ![idx] = "pending"]
         /\ timeout' = [timeout EXCEPT ![idx] = "armed"]
         /\ taskKeys' = IF task.id \in Range(taskKeys)
                        THEN taskKeys ELSE Append(taskKeys, task.id)
         /\ IF task.options.hasDeps
            THEN \* await Promise.allSettled(depsPromArray) with an empty array
                 /\ taskProm' = depsLoop(tp1, task.id, task.options.deps, 1)
                 /\ at' = [at EXCEPT ![idx] = "depsAwait"]
                 /\ mq' = Append(mq, TaskJob(idx))
                 /\ UNCHANGED <<exec, invoked>>
            ELSE \* response = await task.exec({ context })
                 /\ taskProm' = tp1
                 /\ at' = [at EXCEPT ![idx] = "execAwait"]
                 /\ invoked' = [invoked EXCEPT ![idx] = @ + 1]
                 /\ \E o \in Behaviour(task.id) :
                      /\ exec' = [exec EXCEPT ![idx] = execState(o)]
                      /\ mq' = IF o = "pending"
                               THEN mq ELSE Append(mq, TaskJob(idx))
    /\ idx' = idx + 1
    /\ UNCHANGED <<taskList, pc, context, awaited, reported, runError>>
    /\ UNCHANGED <<executor, first, addCall>>

RECURSIVE undefinedElements(_, _)

\* The reaction jobs Promise.allSettled queues at once: one per element that
\* is not a promise (undefined), in order.
undefinedElements(values, k) ==
    IF k > Len(values)
    THEN <<>>
    ELSE (IF values[k] = 0 THEN <<ElementJob(k)>> ELSE <<>>)
         \o undefinedElements(values, k + 1)

\* const ret = await Promise.allSettled(Object.values(taskProm))
runAwait ==
    /\ pc = "dispatch"
    /\ idx > Len(taskList)
    /\ LET values == [k \in 1..Len(taskKeys) |-> taskProm[taskKeys[k]]] IN
         /\ awaited' = values
         /\ mq' = IF Len(values) = 0
                  THEN Append(mq, RunJob)
                  ELSE mq \o undefinedElements(values, 1)
    /\ pc' = "await"
    /\ UNCHANGED <<taskList, idx, taskProm, taskKeys, promise, timeout, at,
                   exec, invoked, context, reported, runError>>
    /\ UNCHANGED <<executor, first, addCall>>

\* ---------------------------------------------------------------- microtasks

\* A promise that takes the outcome of every resolve or reject call, the
\* later ones included.
settleAgain(i, how) == how

\* The promise of callback i is settled as `how` if it is still pending (a
\* second resolve or reject is ignored); Promise.allSettled reacts to it when
\* it is one of the awaited values.
settle(i, how) == IF promise[i] = "pending" THEN how ELSE promise[i]

reaction(i) ==
    IF promise[i] = "pending"
    THEN LET ks == { k \in 1..Len(awaited) : awaited[k] = i } IN
         IF ks = {} THEN <<>> ELSE <<ElementJob(CHOOSE k \in ks : TRUE)>>
    ELSE <<>>

\* Microtasks run once run has suspended (or settled), in FIFO order.
Draining == pc \in {"await", "fulfilled", "rejected"} /\ mq # <<>>

\* A callback that resumes after the wait for its deps and goes on without
\* calling the executor.
depsResolvedWithoutCall ==
    /\ Draining
    /\ Head(mq).job = "task"
    /\ LET i == Head(mq).i IN
         /\ at[i] = "depsAwait"
         /\ at' = [at EXCEPT ![i] = "execAwait"]
         /\ \E o \in Behaviour(taskList[i].id) :
              /\ exec' = [exec EXCEPT ![i] = execState(o)]
              /\ mq' = IF o = "pending"
                       THEN Tail(mq) ELSE Append(Tail(mq), TaskJob(i))
    /\ UNCHANGED <<taskList, pc, idx, taskProm, taskKeys, promise, timeout,
                   invoked, context, awaited, reported, runError>>
    /\ UNCHANGED <<executor, first, addCall>>

\* A callback that resumes after the wait for its deps and gives up, without
\* calling the executor, when some task of the run has already failed or
\* timed out.
depsResolvedUnlessFailure ==
    /\ Draining
    /\ Head(mq).job = "task"
    /\ LET i == Head(mq).i IN
         /\ at[i] = "depsAwait"
         /\ IF \E f \in Tasks : promise[f] \in {"failed", "timedout"}
            THEN /\ at' = [at EXCEPT ![i] = "end"]
                 /\ mq' = Tail(mq)
                 /\ UNCHANGED <<exec, invoked>>
            ELSE /\ at' = [at EXCEPT ![i] = "execAwait"]
                 /\ invoked' = [invoked EXCEPT ![i] = @ + 1]
                 /\ \E o \in Behaviour(taskList[i].id) :
                      /\ exec' = [exec EXCEPT ![i] = execState(o)]
                      /\ mq' = IF o = "pending"
                               THEN Tail(mq) ELSE Append(Tail(mq), TaskJob(i))
    /\ UNCHANGED <<taskList, pc, idx, taskProm, taskKeys, promise, timeout,
                   context, awaited, reported, runError>>
    /\ UNCHANGED <<executor, first, addCall>>

\* A callback that resumes after the wait for its deps and, when the executor
\* of a task registered before it is still running, leaves the queue without
\* calling its own executor.
depsResolvedAfterEarlier ==
    /\ Draining
    /\ Head(mq).job = "task"
    /\ LET i == Head(mq).i IN
         /\ at[i] = "depsAwait"
         /\ IF \E j \in 1..(i - 1) : exec[j] = "pending"
            THEN /\ mq' = Tail(mq)
                 /\ UNCHANGED <<at, exec, invoked>>
            ELSE /\ at' = [at EXCEPT ![i] = "execAwait"]
                 /\ invoked' = [invoked EXCEPT ![i] = @ + 1]
                 /\ \E o \in Behaviour(taskList[i].id) :
                      /\ exec' = [exec EXCEPT ![i] = execState(o)]
                      /\ mq' = IF o = "pending"
                               THEN Tail(mq) ELSE Append(Tail(mq), TaskJob(i))
    /\ UNCHANGED <<taskList, pc, idx, taskProm, taskKeys, promise, timeout,
                   context, awaited, reported, runError>>
    /\ UNCHANGED <<executor, first, addCall>>

\* Callback i resumes after `await Promise.allSettled(depsPromArray)` and
\* calls task.exec({ context }).
depsResolved ==
    /\ Draining
    /\ Head(mq).job = "task"
    /\ LET i == Head(mq).i IN
         /\ at[i] = "depsAwait"
         /\ at' = [at EXCEPT ![i] = "execAwait"]
         /\ invoked' = [invoked EXCEPT ![i] = @ + 1]
         /\ \E o \in Behaviour(taskList[i].id) :
              /\ exec' = [exec EXCEPT ![i] = execState(o)]
              /\ mq' = IF o = "pending"
                       THEN Tail(mq) ELSE Append(Tail(mq), TaskJob(i))
    /\ UNCHANGED <<taskList, pc, idx, taskProm, taskKeys, promise, timeout,
                   context, awaited, reported, runError>>
    /\ UNCHANGED <<executor, first, addCall>>

\* task.exec rejected: the executor threw or its promise rejected ("rejected"),
\* or it threw the TypeError of a write to a frozen response ("typeError").
Threw(e) == e \in {"rejected", "typeError"}

\* Callback i resumes after `await task.exec(...)`: catch (reject) when exec
\* rejected, finally clearTimeout, then in every case the lines after the
\* try statement: context[task.id] = response, freeze, resolve(response).
execSettled ==
    /\ Draining
    /\ Head(mq).job = "task"
    /\ LET i == Head(mq).i
           id == taskList[i].id
       IN
         /\ at[i] = "execAwait"
         /\ exec[i] \in {"fulfilled", "rejected", "typeError"}
         /\ at' = [at EXCEPT ![i] = "end"]
         /\ timeout' = [timeout EXCEPT
                          ![i] = IF @ = "armed" THEN "cleared" ELSE @]
         /\ promise' = [promise EXCEPT
                          ![i] = settle(i, IF Threw(exec[i])
                                           THEN "failed" ELSE "fulfilled")]
         /\ context' = [context EXCEPT
                          ![id] = IF Threw(exec[i])
                                  THEN UndefinedEntry ELSE Response(i)]
         /\ mq' = Tail(mq) \o reaction(i)
    /\ UNCHANGED <<taskList, pc, idx, taskProm, taskKeys, exec, invoked,
                   awaited, reported, runError>>
    /\ UNCHANGED <<executor, first, addCall>>

\* The reaction of Promise.allSettled to one element; the last one resolves
\* the promise run awaits.
allSettledElement ==
    /\ Draining
    /\ Head(mq).job = "element"
    /\ reported' = reported \cup {Head(mq).i}
    /\ mq' = IF reported' = 1..Len(awaited)
             THEN Append(Tail(mq), RunJob) ELSE Tail(mq)
    /\ UNCHANGED <<taskList, pc, idx, taskProm, taskKeys, promise, timeout,
                   at, exec, invoked, context, awaited, runError>>
    /\ UNCHANGED <<executor, first, addCall>>

\* The reason a rejected promise carries: `Task <id> failed: ...` or
\* `Task <id> timed out`.
Reason(i) == [task |-> taskList[i].id, reason |-> promise[i]]

RECURSIVE rejectedReasons(_)

\* ret.filter(r => r.status === "rejected").map(r => r.reason), from the
\* k-th element on.
rejectedReasons(k) ==
    IF k > Len(awaited)
    THEN <<>>
    ELSE (IF awaited[k] # 0 /\ promise[awaited[k]] \in {"failed", "timedout"}
          THEN <<Reason(awaited[k])>> ELSE <<>>)
         \o rejectedReasons(k + 1)

FlowError(errors) ==
    [kind |-> "flow", task |-> "", dep |-> "", errors |-> errors]

\* run resumes after the await: return context when every element is
\* fulfilled, else throw the error that joins the reasons.
runSettles ==
    /\ Draining
    /\ Head(mq).job = "run"
    /\ pc = "await"
    /\ LET errors == rejectedReasons(1) IN
         IF errors = <<>>
         THEN pc' = "fulfilled" /\ UNCHANGED runError
         ELSE pc' = "rejected" /\ runError' = FlowError(errors)
    /\ mq' = Tail(mq)
    /\ UNCHANGED <<taskList, idx, taskProm, taskKeys, promise, timeout, at,
                   exec, invoked, context, awaited, reported>>
    /\ UNCHANGED <<executor, first, addCall>>

\* ---------------------------------------------------------------- macrotasks

\* Timers run when the synchronous code and every microtask have finished.
Idle == pc \in {"await", "fulfilled", "rejected"} /\ mq = <<>>

\* A timer that fires without rejecting the promise of its task.
timeoutFiresSilently(i) ==
    /\ Idle
    /\ i \in DOMAIN timeout
    /\ timeout[i] = "armed"
    /\ timeout' = [timeout EXCEPT ![i] = "fired"]
    /\ UNCHANGED <<taskList, pc, idx, taskProm, taskKeys, promise, at, exec,
                   invoked, context, awaited, reported, mq, runError>>
    /\ UNCHANGED <<executor, first, addCall>>

\* The setTimeout callback of callback i: reject(`Task <id> timed out`).
timeoutFires(i) ==
    /\ Idle
    /\ i \in DOMAIN timeout
    /\ timeout[i] = "armed"
    /\ timeout' = [timeout EXCEPT ![i] = "fired"]
    /\ promise' = [promise EXCEPT ![i] = settle(i, "timedout")]
    /\ mq' = reaction(i)
    /\ UNCHANGED <<taskList, pc, idx, taskProm, taskKeys, at, exec, invoked,
                   context, awaited, reported, runError>>
    /\ UNCHANGED <<executor, first, addCall>>

\* The pending promise an executor returned settles; task.exec settles the
\* same way and the callback's continuation is queued.
executorSettles(i, how) ==
    /\ Idle
    /\ i \in DOMAIN exec
    /\ exec[i] = "pending"
    /\ executor[taskList[i].id] = "any"
    /\ exec' = [exec EXCEPT ![i] = how]
    /\ mq' = <<TaskJob(i)>>
    /\ UNCHANGED <<taskList, pc, idx, taskProm, taskKeys, promise, timeout,
                   at, invoked, context, awaited, reported, runError>>
    /\ UNCHANGED <<executor, first, addCall>>

\* The context keys the executor of callback i touches in the model: its own
\* name and the names of its deps.
Targets(i) == {taskList[i].id} \cup Range(taskList[i].options.deps)

\* An executor that is still running assigns a key of the context it was
\* given: input.context[key] = value.  The context object itself is not
\* frozen, so the assignment takes effect.
executorWrites(i, key) ==
    /\ Idle
    /\ i \in DOMAIN exec
    /\ exec[i] = "pending"
    /\ executor[taskList[i].id] = "any"
    /\ key \in Targets(i)
    /\ context[key] # Assigned(i)
    /\ context' = [context EXCEPT ![key] = Assigned(i)]
    /\ UNCHANGED <<taskList, pc, idx, taskProm, taskKeys, promise, timeout,
                   at, exec, invoked, awaited, reported, mq, runError>>
    /\ UNCHANGED <<executor, first, addCall>>

\* An executor that is still running modifies a field of a stored response:
\* input.context[key].value += 10.  The response was frozen by Object.freeze,
\* the write throws a TypeError (strict mode) and the executor's promise
\* rejects with it.
executorMutates(i, key) ==
    /\ Idle
    /\ i \in DOMAIN exec
    /\ exec[i] = "pending"
    /\ executor[taskList[i].id] = "any"
    /\ key \in Targets(i)
    /\ context[key].kind = "response"
    /\ exec' = [exec EXCEPT ![i] = "typeError"]
    /\ mq' = <<TaskJob(i)>>
    /\ UNCHANGED <<taskList, pc, idx, taskProm, taskKeys, promise, timeout,
                   at, invoked, context, awaited, reported, runError>>
    /\ UNCHANGED <<executor, first, addCall>>

\* ------------------------------------------------------------ specification

Next ==
    \/ \E task \in TaskPool : addTask(task)
    \/ run
    \/ forEachTask
    \/ runAwait
    \/ depsResolved
    \/ execSettled
    \/ allSettledElement
    \/ runSettles
    \/ \E i \in 1..MaxTasks : timeoutFires(i)
    \/ \E i \in 1..MaxTasks, how \in {"fulfilled", "rejected"} :
         executorSettles(i, how)
    \/ \E i \in 1..MaxTasks, key \in Names : executorWrites(i, key)
    \/ \E i \in 1..MaxTasks, key \in Names : executorMutates(i, key)

Spec == Init /\ [][Next]_vars

\* ------------------------------------------- the same tasks in two orders

\* The largest flow that is registered in two orders.
MaxOrderTasks == 3

\* The diamond A -> {B, C} -> D.
Diamond ==
    << Task("A", NoDeps),
       Task("B", Deps(<<"A">>)),
       Task("C", Deps(<<"A">>)),
       Task("D", Deps(<<"B", "C">>)) >>

\* The orders a set of tasks can be registered in.
Orders(S) ==
    { list \in [1..Cardinality(S) -> S] :
        \A i, j \in 1..Cardinality(S) : i # j => list[i] # list[j] }

\* What a caller of run observes, and which tasks run waited for: whether the
\* promise of run fulfilled or rejected, the tasks named in the error, and
\* the tasks whose promise was passed to Promise.allSettled.
Outcome ==
    [status |-> pc,
     named |-> { runError.errors[k].task : k \in 1..Len(runError.errors) },
     waited |-> { taskList[awaited[k]].id :
                    k \in { l \in 1..Len(awaited) : awaited[l] # 0 } }]

\* A new FlowManager with the first tasks of the diamond registered in some
\* order, each with an executor that always returns, always throws, or never
\* completes.
InitOrders ==
    /\ taskList \in UNION { Orders({ Diamond[i] : i \in 1..n }) :
                               n \in 2..MaxOrderTasks }
    /\ executor \in { e \in [Names -> Outcomes] :
                        \A n \in Names \ Ids(taskList) : e[n] = "return" }
    /\ pc = "build"
    /\ idx = 1
    /\ taskProm = [n \in Names |-> 0]
    /\ taskKeys = <<>>
    /\ promise = <<>>
    /\ timeout = <<>>
    /\ at = <<>>
    /\ exec = <<>>
    /\ invoked = <<>>
    /\ context = [n \in Names |-> NoEntry]
    /\ awaited = <<>>
    /\ reported = {}
    /\ mq = <<>>
    /\ runError = NoError
    /\ first = NoOutcome
    /\ addCall = NoCall

\* Once run has settled, its outcome is kept and the same tasks, with the
\* same executors, are registered in another order with a new FlowManager.
registerInOtherOrder(list) ==
    /\ pc \in {"fulfilled", "rejected"}
    /\ first = NoOutcome
    /\ list \in Orders(Range(taskList)) \ {taskList}
    /\ first' = Outcome
    /\ taskList' = list
    /\ pc' = "build"
    /\ idx' = 1
    /\ taskProm' = [n \in Names |-> 0]
    /\ taskKeys' = <<>>
    /\ promise' = <<>>
    /\ timeout' = <<>>
    /\ at' = <<>>
    /\ exec' = <<>>
    /\ invoked' = <<>>
    /\ context' = [n \in Names |-> NoEntry]
    /\ awaited' = <<>>
    /\ reported' = {}
    /\ mq' = <<>>
    /\ runError' = NoError
    /\ UNCHANGED <<executor, addCall>>

NextOrders ==
    \/ run
    \/ forEachTask
    \/ runAwait
    \/ depsResolved
    \/ execSettled
    \/ allSettledElement
    \/ runSettles
    \/ \E i \in 1..MaxOrderTasks : timeoutFires(i)
    \/ \E list \in Orders(Range(taskList)) : registerInOtherOrder(list)

SpecOrders == InitOrders /\ [][NextOrders]_vars

\* --------------------------------------------- two runs of the same flow

\* What a caller of run observes once run has settled, the returned or
\* abandoned context included.
RunResult ==
    [status |-> pc,
     named |-> Outcome.named,
     waited |-> Outcome.waited,
     context |-> context]

\* A second run() that takes the context of the first run as its own, as if
\* the context were a field of the FlowManager.
runAgainSameContext ==
    /\ pc \in {"fulfilled", "rejected"}
    /\ mq = <<>>
    /\ first = NoOutcome
    /\ first' = RunResult
    /\ start(context)

\* The caller, once the first run() has settled and its microtasks are done,
\* keeps what it observed and calls run() again on the same FlowManager, again
\* without an argument: taskProm and context are locals of the new call, the
\* default argument is a new object, and this.taskList is the same list.
runAgain ==
    /\ pc \in {"fulfilled", "rejected"}
    /\ mq = <<>>
    /\ first = NoOutcome
    /\ first' = RunResult
    /\ start(EmptyContext)

NextRuns ==
    \/ run
    \/ forEachTask
    \/ runAwait
    \/ depsResolved
    \/ execSettled
    \/ allSettledElement
    \/ runSettles
    \/ \E i \in 1..MaxOrderTasks : timeoutFires(i)
    \/ runAgain

\* A FlowManager with tasks whose executors always do the same, run twice.
SpecRuns == InitOrders /\ [][NextRuns]_vars

\* ------------------------------------------------- a run under fair scheduling

\* A FlowManager on which run has not been called.
NotStarted ==
    /\ pc = "build"
    /\ idx = 1
    /\ taskProm = [n \in Names |-> 0]
    /\ taskKeys = <<>>
    /\ promise = <<>>
    /\ timeout = <<>>
    /\ at = <<>>
    /\ exec = <<>>
    /\ invoked = <<>>
    /\ awaited = <<>>
    /\ reported = {}
    /\ mq = <<>>
    /\ runError = NoError
    /\ first = NoOutcome
    /\ addCall = NoCall

\* The first tasks of the diamond registered in some order, their executors
\* left open: an executor that returned a promise may settle it at any time
\* or never.
InitLive ==
    /\ taskList \in UNION { Orders({ Diamond[i] : i \in 1..n }) :
                               n \in 1..MaxOrderTasks }
    /\ executor = [n \in Names |-> "any"]
    /\ context = EmptyContext
    /\ NotStarted

NextLive ==
    \/ run
    \/ forEachTask
    \/ runAwait
    \/ depsResolved
    \/ execSettled
    \/ allSettledElement
    \/ runSettles
    \/ \E i \in 1..MaxOrderTasks : timeoutFires(i)
    \/ \E i \in 1..MaxOrderTasks, how \in {"fulfilled", "rejected"} :
         executorSettles(i, how)

\* The event loop: synchronous code runs to completion, every queued
\* microtask is run, and every timer that is still set fires after its
\* (finite) delay.  Nothing makes an executor settle its promise.
EventLoop ==
    /\ WF_vars(forEachTask)
    /\ WF_vars(runAwait)
    /\ WF_vars(depsResolved)
    /\ WF_vars(execSettled)
    /\ WF_vars(allSettledElement)
    /\ WF_vars(runSettles)
    /\ \A i \in 1..MaxOrderTasks : WF_vars(timeoutFires(i))

SpecLive == InitLive /\ [][NextLive]_vars /\ EventLoop

\* ------------------------------------------------------- a run with a seed

\* A context entry the caller put into the object it passes to run.
Seeded == [kind |-> "seed", by |-> 0]

\* The first tasks of the diamond registered in some order, their executors
\* left open (they return, throw, or complete later, and do not touch the
\* context), and the object the caller is going to pass as
\* initialContext.context, holding any set of keys.
InitSeed ==
    /\ taskList \in UNION { Orders({ Diamond[i] : i \in 1..n }) :
                               n \in 1..MaxOrderTasks }
    /\ executor = [n \in Names |-> "any"]
    /\ \E S \in SUBSET Names :
         context = [n \in Names |-> IF n \in S THEN Seeded ELSE NoEntry]
    /\ NotStarted

\* run(initialContext) that starts from a new empty object instead of the
\* object it is given.
runIgnoringSeed ==
    /\ pc = "build"
    /\ start(EmptyContext)
    /\ UNCHANGED first

\* run(initialContext): context is the caller's object itself.
runSeeded ==
    /\ pc = "build"
    /\ start(context)
    /\ UNCHANGED first

NextSeed ==
    \/ runSeeded
    \/ forEachTask
    \/ runAwait
    \/ depsResolved
    \/ execSettled
    \/ allSettledElement
    \/ runSettles
    \/ \E i \in 1..MaxOrderTasks : timeoutFires(i)
    \/ \E i \in 1..MaxOrderTasks, how \in {"fulfilled", "rejected"} :
         executorSettles(i, how)

SpecSeed == InitSeed /\ [][NextSeed]_vars

\* -------------------------------------------------------------- the diamond

\* A FlowManager with the four tasks of the diamond registered in some order,
\* their executors left open: they return, throw, or complete later, and do
\* not touch the context.
InitDiamond ==
    /\ taskList \in Orders(Range(Diamond))
    /\ executor = [n \in Names |-> "any"]
    /\ pc = "build"
    /\ idx = 1
    /\ taskProm = [n \in Names |-> 0]
    /\ taskKeys = <<>>
    /\ promise = <<>>
    /\ timeout = <<>>
    /\ at = <<>>
    /\ exec = <<>>
    /\ invoked = <<>>
    /\ context = [n \in Names |-> NoEntry]
    /\ awaited = <<>>
    /\ reported = {}
    /\ mq = <<>>
    /\ runError = NoError
    /\ first = NoOutcome
    /\ addCall = NoCall

NextDiamond ==
    \/ run
    \/ forEachTask
    \/ runAwait
    \/ depsResolved
    \/ execSettled
    \/ allSettledElement
    \/ runSettles
    \/ \E i \in 1..Len(Diamond) : timeoutFires(i)
    \/ \E i \in 1..Len(Diamond), how \in {"fulfilled", "rejected"} :
         executorSettles(i, how)

SpecDiamond == InitDiamond /\ [][NextDiamond]_vars

\* What every reachable state satisfies.
TypeOK ==
    /\ pc \in {"build", "dispatch", "await", "fulfilled", "rejected"}
    /\ Len(taskList) <= MaxTasks
    /\ \A n \in Names : taskProm[n] \in 0..Len(taskList)
    /\ pc # "build" /\ runError.kind \in {"none", "flow"} =>
         /\ DOMAIN promise = Tasks
         /\ \A i \in Tasks :
              /\ promise[i] \in {"none", "pending", "fulfilled", "failed",
                                 "timedout"}
              /\ timeout[i] \in {"unset", "armed", "cleared", "fired"}
              /\ at[i] \in {"start", "depsAwait", "execAwait", "end"}
              /\ exec[i] \in {"none", "pending", "fulfilled", "rejected",
                              "typeError"}
              /\ invoked[i] \in 0..1

\* ------------------------------------------------- the dependency relation

\* task -> its deps, over every task of the list.
Edges(list) ==
    UNION { { <<list[i].id, list[i].options.deps[j]>> :
                j \in 1..Len(list[i].options.deps) } : i \in 1..Len(list) }

RECURSIVE Closure(_, _)

\* The names reachable from the set S along E in zero or more steps.
Closure(S, E) ==
    LET T == S \cup { e[2] : e \in { f \in E : f[1] \in S } } IN
    IF T = S THEN S ELSE Closure(T, E)

\* b is reachable from a in one or more steps: a depends on b transitively.
DependsOn(list, a, b) ==
    b \in Closure({ e[2] : e \in { f \in Edges(list) : f[1] = a } },
                  Edges(list))

OnCycle(list, n) == DependsOn(list, n, n)

Cyclic(list) == \E e \in Edges(list) : OnCycle(list, e[1])

AllDepsRegistered(list) == \A e \in Edges(list) : e[2] \in Ids(list)

\* A valid flow: every dependency registered and no cycle.
ValidFlow(list) == AllDepsRegistered(list) /\ ~Cyclic(list)

\* No name is registered twice (the data model: a name is unique in a flow).
UniqueNames(list) ==
    \A i \in 1..Len(list), j \in 1..Len(list) :
        list[i].id = list[j].id => i = j

\* run was called and has settled.
RunSettled == pc \in {"fulfilled", "rejected"}

\* The reasons of the aggregate error run rejected with.
Reported == IF runError.kind = "flow" THEN Range(runError.errors) ELSE {}

\* ------------------------------------------------------------------- claims

\* C1: in a run of a valid flow (with unique names), whenever the executor of
\* a task is invoked, every task named in its deps has already completed
\* successfully and its response is in the context.
C1_DepsCompletedBeforeExec ==
    [][ \A i \in DOMAIN invoked :
          (ValidFlow(taskList) /\ UniqueNames(taskList)
             /\ i \in DOMAIN invoked'
             /\ invoked'[i] > invoked[i])
          => \A d \in Range(taskList[i].options.deps) :
               context[d].kind = "response" ]_vars

\* C2: run of a valid flow (with unique names) does not settle while the
\* completion signal of a registered task is still pending (its executor not
\* finished and its timeout not elapsed).
C2_RunWaitsForEveryTask ==
    (RunSettled /\ ValidFlow(taskList) /\ UniqueNames(taskList))
    => \A i \in Tasks : promise[i] # "pending"

\* C3: when run of a valid flow (with unique names) has settled and a task
\* has failed or timed out, run has rejected with the aggregate error and the
\* error holds the reason of that task; run has not fulfilled.
C3_EveryFailureReported ==
    (RunSettled /\ ValidFlow(taskList) /\ UniqueNames(taskList))
    => \A i \in Tasks :
         promise[i] \in {"failed", "timedout"}
         => pc = "rejected" /\ Reason(i) \in Reported

\* C4: in a run of a valid flow (with unique names), when a task has failed
\* or timed out, the executor of a task that transitively depends on it has
\* not been invoked in that run.
C4_DependentsOfFailedNotInvoked ==
    (pc # "build" /\ ValidFlow(taskList) /\ UniqueNames(taskList))
    => \A i \in DOMAIN promise, j \in DOMAIN invoked :
         (promise[i] \in {"failed", "timedout"}
            /\ DependsOn(taskList, taskList[j].id, taskList[i].id))
         => invoked[j] = 0

\* C5: in a valid flow (with unique names), when the executor of A has failed
\* and B depends on A, the settled run has rejected with an aggregate error
\* that lists A as failed and B as skipped.
C5_SkippedDependentReported ==
    (RunSettled /\ ValidFlow(taskList) /\ UniqueNames(taskList))
    => \A a \in Tasks, b \in Tasks :
         (promise[a] = "failed"
            /\ taskList[a].id \in Range(taskList[b].options.deps))
         => /\ pc = "rejected"
            /\ Reason(a) \in Reported
            /\ [task |-> taskList[b].id, reason |-> "skipped"] \in Reported

\* C6: when the timeout of a task of a valid flow (with unique names) has
\* elapsed before its executor finished, the task's signal is a timeout
\* failure, and the settled run has rejected with an aggregate error that
\* mentions the task.
C6_TimeoutReported ==
    (ValidFlow(taskList) /\ UniqueNames(taskList))
    => \A i \in DOMAIN timeout :
         timeout[i] = "fired"
         => /\ promise[i] = "timedout"
            /\ RunSettled =>
                 /\ pc = "rejected"
                 /\ [task |-> taskList[i].id, reason |-> "timedout"]
                      \in Reported

\* C7: when the registered task graph is invalid (a cycle, or a dependency
\* that is not registered), run rejects and no executor is ever invoked.
C7_InvalidGraphRunsNothing ==
    (pc # "build" /\ ~ValidFlow(taskList))
    => /\ \A i \in DOMAIN invoked : invoked[i] = 0
       /\ RunSettled => pc = "rejected"

\* C8: for a task list whose dependencies are all registered, run rejects
\* with the circular-dependency error if and only if the dependency relation
\* has a cycle.
C8_CircularIffCycle ==
    (pc # "build" /\ AllDepsRegistered(taskList))
    => (runError.kind = "circular" <=> Cyclic(taskList))

\* C9: the task named in the circular-dependency error lies on a cycle of the
\* dependency relation (stated for flows with unique names).
C9_NamedTaskOnCycle ==
    (runError.kind = "circular" /\ UniqueNames(taskList))
    => OnCycle(taskList, runError.task)

\* C10: when a task of a flow (with unique names) declares a dependency that
\* is not registered, run fails with the unknown-dependency error, which
\* names a missing dependency and a task that declares it.
C10_UnknownDependencyReported ==
    (pc # "build" /\ ~AllDepsRegistered(taskList) /\ UniqueNames(taskList))
    => /\ pc = "rejected"
       /\ runError.kind = "unknown"
       /\ runError.dep \notin Ids(taskList)
       /\ <<runError.task, runError.dep>> \in Edges(taskList)

\* C11: when run of a valid flow (with unique names) has fulfilled, every
\* registered task has succeeded and the context holds, under the name of
\* every task, the value its executor returned.
C11_FulfilledContextComplete ==
    (pc = "fulfilled" /\ ValidFlow(taskList) /\ UniqueNames(taskList))
    => \A i \in Tasks :
         /\ promise[i] = "fulfilled"
         /\ context[taskList[i].id] = Response(i)

\* C12: in a valid flow (with unique names), the engine never writes the
\* context key of a task whose executor failed or whose timeout elapsed:
\* neither undefined nor the late result of the executor.
C12_FailedTaskHasNoEntry ==
    (ValidFlow(taskList) /\ UniqueNames(taskList))
    => \A i \in DOMAIN promise :
         promise[i] \in {"failed", "timedout"}
         => context[taskList[i].id].kind \notin {"undefined", "response"}

\* C13: once the engine has written the response of a task into the context,
\* the value under that key never changes for the rest of the run, whatever
\* an executor does with the context.
C13_WrittenEntryNeverChanges ==
    [][ \A n \in Names :
          (ValidFlow(taskList) /\ UniqueNames(taskList)
             /\ context[n].kind = "response")
          => context'[n] = context[n] ]_vars

\* C14: in a valid flow (with unique names), when an executor has tried to
\* modify a field of the written response of another task, the attempting
\* task has failed and the settled run has rejected.
C14_FrozenWriteRejectsRun ==
    (RunSettled /\ ValidFlow(taskList) /\ UniqueNames(taskList))
    => \A i \in Tasks :
         (exec[i] = "typeError" /\ at[i] = "end")
         => promise[i] \in {"failed", "timedout"} /\ pc = "rejected"

\* run has passed the validation and the forEach loop.
Dispatched ==
    /\ pc \in {"await", "fulfilled", "rejected"}
    /\ runError.kind \in {"none", "flow"}

\* No executor of the run has failed and no timeout has elapsed.
NoFailure ==
    \A i \in Tasks :
      /\ promise[i] \notin {"failed", "timedout"}
      /\ exec[i] \notin {"rejected", "typeError"}
      /\ timeout[i] # "fired"

\* C15: no executor is ever invoked more than once, and in a valid flow where
\* no executor fails or times out every executor has been invoked exactly
\* once when no microtask is left after the dispatch and when run has
\* settled.
C15_EveryExecutorInvokedOnce ==
    /\ \A i \in DOMAIN invoked : invoked[i] <= 1
    /\ (ValidFlow(taskList) /\ Dispatched /\ NoFailure
          /\ (mq = <<>> \/ RunSettled))
       => \A i \in Tasks : invoked[i] = 1

\* C15 witness: run of three tasks, one of them with deps, has fulfilled with
\* every task succeeded and every executor invoked once.
C15_Witness ==
    /\ pc = "fulfilled"
    /\ Len(taskList) = 3
    /\ ValidFlow(taskList) /\ UniqueNames(taskList)
    /\ \E i \in Tasks : taskList[i].options.deps # <<>>
    /\ \A i \in Tasks : promise[i] = "fulfilled" /\ invoked[i] = 1

\* Task i is independent of task f: another task that does not depend on f,
\* directly or through other tasks.
Independent(i, f) ==
    /\ i # f
    /\ ~DependsOn(taskList, taskList[i].id, taskList[f].id)

\* C16: in a valid flow, when a task has failed or timed out, every task
\* that does not transitively depend on it has had its executor invoked once
\* no microtask is left after the dispatch or run has settled; and a callback
\* that completes with its task succeeded writes the response of its executor
\* under the name of the task.
C16_IndependentTasksStillRun ==
    /\ [](( ValidFlow(taskList) /\ Dispatched /\ (mq = <<>> \/ RunSettled))
          => \A f \in Tasks, i \in Tasks :
               (promise[f] \in {"failed", "timedout"} /\ Independent(i, f))
               => invoked[i] = 1)
    /\ [][ \A i \in Tasks :
            (pc # "build" /\ i \in DOMAIN at /\ at[i] = "execAwait"
               /\ at'[i] = "end" /\ promise'[i] = "fulfilled")
            => context'[taskList[i].id] = Response(i) ]_vars

\* C16 witness: task A has failed, the independent task C (with an empty
\* deps list, so invoked from a microtask) has succeeded and its response is
\* in the context.
C16_Witness ==
    /\ Dispatched
    /\ ValidFlow(taskList) /\ UniqueNames(taskList)
    /\ \E f \in Tasks, i \in Tasks :
         /\ promise[f] \in {"failed", "timedout"}
         /\ Independent(i, f)
         /\ f < i
         /\ taskList[i].options.hasDeps
         /\ invoked[i] = 1
         /\ promise[i] = "fulfilled"
         /\ context[taskList[i].id] = Response(i)

\* C17: once run has been called on a flow that registers a name twice, no
\* executor is ever invoked and the settled run has rejected (addTask has
\* accepted every task; the error can only come from run).
C17_DuplicateNamesRejected ==
    (pc # "build" /\ ~UniqueNames(taskList))
    => /\ \A i \in DOMAIN invoked : invoked[i] = 0
       /\ RunSettled => pc = "rejected"

\* C18: in a valid flow (with unique names), when some executor of the run
\* has been invoked, the promise of every registered task has been created
\* and is the value of taskProm under the name of the task.
C18_SignalsCreatedBeforeFirstExecutor ==
    (pc # "build" /\ ValidFlow(taskList) /\ UniqueNames(taskList)
       /\ \E i \in Tasks : invoked[i] > 0)
    => \A j \in Tasks :
         /\ promise[j] # "none"
         /\ taskProm[taskList[j].id] = j

\* C19: for the same tasks with the same executors, the run of a second
\* registration order has, once settled, the outcome of the run of the first
\* order: fulfilled or rejected, the same tasks named in the error, the same
\* tasks waited for.
C19_OutcomeIndependentOfOrder ==
    (first # NoOutcome /\ RunSettled) => Outcome = first

\* No dependency path leads from task i to task j or from j to i.
Unrelated(i, j) ==
    /\ i # j
    /\ ~DependsOn(taskList, taskList[i].id, taskList[j].id)
    /\ ~DependsOn(taskList, taskList[j].id, taskList[i].id)

\* C20: the engine never makes a task wait for an unrelated task registered
\* before it: in the diamond, whenever no microtask is left after the
\* dispatch and the executor of a task is still running, the executor of
\* every unrelated task registered after it has been invoked.
C20_IndependentTasksConcurrent ==
    (ValidFlow(taskList) /\ UniqueNames(taskList) /\ Dispatched /\ mq = <<>>)
    => \A i \in Tasks, j \in Tasks :
         (j < i /\ Unrelated(i, j) /\ exec[j] = "pending")
         => invoked[i] = 1

\* C20 witness: in the diamond the ancestor A has completed and the executors
\* of B and C have both started and neither has completed.
C20_Witness ==
    /\ Dispatched
    /\ Range(taskList) = Range(Diamond)
    /\ \E a \in Tasks, b \in Tasks, c \in Tasks :
         /\ taskList[a].id = "A" /\ promise[a] = "fulfilled"
         /\ taskList[b].id = "B" /\ taskList[c].id = "C"
         /\ invoked[b] = 1 /\ exec[b] = "pending" /\ at[b] = "execAwait"
         /\ invoked[c] = 1 /\ exec[c] = "pending" /\ at[c] = "execAwait"

\* C21: the second run() of a FlowManager starts from an empty context, no
\* promise, no executor invoked and the same task list; and with executors
\* that always do the same, once it has settled and its microtasks are done
\* every executor has been invoked again and the caller observes what it
\* observed of the first run: the same status, tasks named in the error, tasks
\* waited for and context.
C21_NoStateBetweenRuns ==
    /\ [][ (first = NoOutcome /\ first' # NoOutcome)
           => /\ context' = EmptyContext
              /\ taskList' = taskList
              /\ \A n \in Names : taskProm'[n] = 0
              /\ \A i \in DOMAIN promise' :
                   promise'[i] = "none" /\ invoked'[i] = 0 ]_vars
    /\ []((first # NoOutcome /\ RunSettled /\ mq = <<>>)
          => /\ RunResult = first
             /\ Dispatched => \A i \in Tasks : invoked[i] = 1)

\* C21 witness: the first run rejected naming a task and left a response in
\* its context, and the second run of the same three tasks has settled with
\* every executor invoked again.
C21_Witness ==
    /\ first # NoOutcome
    /\ first.status = "rejected" /\ first.named # {}
    /\ \E n \in Names : first.context[n].kind = "response"
    /\ Len(taskList) = 3
    /\ Dispatched /\ RunSettled /\ mq = <<>>
    /\ \A i \in Tasks : invoked[i] = 1

\* The promise of task i has been resolved or rejected.
Settled(i) == promise[i] \in {"fulfilled", "failed", "timedout"}

\* C22: the timer of every task is set when the task is dispatched; once the
\* timer of a task has fired or has been cleared the promise of the task is
\* settled; and under the event loop's scheduling every run that has reached
\* the dispatch leads to a state where every task's promise is settled and
\* run has fulfilled or rejected, even if executors never complete.
C22_EveryRunSettles ==
    /\ [](Dispatched
           => \A i \in Tasks :
                /\ timeout[i] # "unset"
                /\ timeout[i] \in {"fired", "cleared"} => Settled(i))
    /\ (pc = "dispatch") ~> (RunSettled /\ \A i \in Tasks : Settled(i))

\* C22 witness: run has settled although the executor of a task it waited
\* for has not completed: the timer of the task fired and settled its promise.
C22_Witness ==
    /\ Dispatched /\ RunSettled
    /\ \E i \in Tasks :
         /\ exec[i] = "pending"
         /\ timeout[i] = "fired"
         /\ promise[i] = "timedout"
         /\ \E k \in 1..Len(awaited) : awaited[k] = i

\* C23: within a run the settled promise of a task keeps its outcome
\* whatever happens later (a late result of the executor after the timeout,
\* the timer after a result); a timer only times out a task whose executor
\* has not completed; and, names being unique, the error of run names a
\* task at most once.
C23_FirstEventDecides ==
    /\ [][ \A i \in DOMAIN promise :
            /\ Settled(i) => promise'[i] = promise[i]
            /\ (promise[i] = "pending" /\ promise'[i] = "timedout")
               => exec[i] = "pending" ]_vars
    /\ [](UniqueNames(taskList)
           => \A k, l \in 1..Len(runError.errors) :
                runError.errors[k].task = runError.errors[l].task => k = l)

\* C23 witness: the executor of a task has completed after the timer of the
\* task fired, its callback has run to the end, and the task is still timed
\* out; run has rejected naming it.
C23_Witness ==
    /\ Dispatched /\ pc = "rejected" /\ UniqueNames(taskList)
    /\ \E i \in Tasks :
         /\ timeout[i] = "fired"
         /\ exec[i] = "fulfilled"
         /\ at[i] = "end"
         /\ promise[i] = "timedout"
         /\ \E k \in 1..Len(runError.errors) :
              runError.errors[k] = Reason(i)

\* C24: from the call of run with a seed on, through every step of the run,
\* what the context holds under a key that is not the name of a registered
\* task stays what the caller put there: the seed entry is there when an
\* executor is invoked and when run returns the context, and the engine
\* writes no key but names of registered tasks.
C24_SeedEntriesKept ==
    [][ \A n \in Names \ Ids(taskList) : context'[n] = context[n] ]_vars

\* C24 witness: run has fulfilled and returns a context that holds the
\* response of every task, the seed entry under a name that is not a task,
\* and no entry under another such name.
C24_Witness ==
    /\ pc = "fulfilled"
    /\ Len(taskList) >= 2
    /\ \A i \in Tasks : context[taskList[i].id] = Response(i)
    /\ \E n \in Names \ Ids(taskList) : context[n] = Seeded
    /\ \E n \in Names \ Ids(taskList) : context[n] = NoEntry

\* The arguments the claim says addTask rejects: a name without task
\* options, or a first argument that is neither a name nor a Task.
Rejected(call) ==
    \/ call.task.type = "string" /\ ~call.taskOptions.given
    \/ call.task.type = "other"

\* The task a call with accepted arguments registers.
Registered(call) ==
    IF call.task.type = "string"
    THEN Task(call.task.id, call.taskOptions.options)
    ELSE Task(call.task.id, call.task.options)

\* C25: every call of addTask with a name and no task options, or with a
\* value that is neither a name nor a Task, throws and leaves the task list
\* as it was; every other call returns this and leaves the list with the
\* task of the call appended at the end of what it was.
C25_AddTaskArguments ==
    [][ (addCall' # addCall \/ taskList' # taskList)
        => IF Rejected(addCall')
           THEN addCall'.result = "error" /\ taskList' = taskList
           ELSE /\ addCall'.result = "this"
                /\ taskList' = Append(taskList, Registered(addCall')) ]_vars

\* C25 witness: two tasks are registered, one by name and options and one as
\* a Task, and the last call, with a name only, threw.
C25_Witness ==
    /\ Len(taskList) = 2
    /\ taskList[1] = Task("A", NoDeps)
    /\ taskList[2] = Task("B", Deps(<<"A">>))
    /\ addCall.task.type = "string"
    /\ ~addCall.taskOptions.given
    /\ addCall.result = "error"

\* ------------------------------------------------------- supporting checks

\* On flows whose names are unique the validation is sound: an invalid graph
\* is rejected by run before any executor is invoked.
UniqueNamesInvalidGraphRunsNothing ==
    UniqueNames(taskList) => C7_InvalidGraphRunsNothing

\* On flows whose names are unique the depth-first search reports a cycle
\* exactly when the dependency relation has one.
UniqueNamesCircularIffCycle ==
    UniqueNames(taskList) => C8_CircularIffCycle

====
